---- MODULE Spec2Model ----
(***************************************************************************)
(* Model of the deployment orchestration core of ai-army-deploy:           *)
(*   deploy_manager.py  DeploymentManager (deploy_site, deploy_all, ...)   *)
(*   rollback.py        RollbackManager (create_backup, list_backups, ...) *)
(*   monitor.py         SiteMonitor (check_site, check_all, send_alert)    *)
(* A deploy_all run is modelled step by step: every external call of      *)
(* deploy_site (path test, shell command, HTTP probe) is one step of the   *)
(* site's worker, so that parallel runs interleave as the thread pool      *)
(* lets them.                                                              *)
(***************************************************************************)
EXTENDS Integers, Sequences, FiniteSets, TLC

\* ------------------------------------------------------------------ bounds
\* Largest configured site list of a sequential run.
MaxSites == 2
\* Largest configured site list of a parallel run (one more than the pool).
MaxParSites == 4
\* Last second of the clock the backup operations are followed to.
MaxClock == 6
\* Last second of the clock when backups, deployments and rollbacks mix.
MaxRollbackClock == 0
\* Most deploy_all calls on one DeploymentManager.
MaxCalls == 2
\* Largest configured site list of a monitor.
MaxMonSites == 3

VARIABLES
    sites,      \* self.config['sites']: the configured site descriptors
    parallel,   \* the parallel argument of deploy_all
    mpc,        \* position of the main thread in deploy_all
    cur,        \* index of the sequential for-loop of deploy_all
    pc,         \* pc[i]: position of deploy_site(sites[i])
    idx,        \* idx[i]: index of the command the current loop of site i is at
    result,     \* result[i]: the local variable result of deploy_site(sites[i])
    results,    \* self.results
    trace,      \* trace[i]: the external steps deploy_site(sites[i]) has run
    warnings,   \* warnings[i]: logger.warning records of health_check for site i
    summary,    \* what print_summary read and reported
    saved,      \* what save_results wrote to the results file
    repo,       \* repo[i]: the git working tree of site i, "dirty" or "clean"
    clock,      \* datetime.now(), in seconds
    backup_dir, \* the entries of the directory RollbackManager.backup_dir
    live,       \* live[s]: the content of the site path of site s
    made,       \* made[s]: how many backups create_backup(s, ..) has returned
    bk_ret,     \* the outcome of the last RollbackManager operation
    mon_pc,     \* position of SiteMonitor.check_all
    mon_i,      \* index of the for-loop of check_all
    mon_results,\* the local variable results of check_all
    probed,     \* the requests.get calls of check_site, with what they did
    alerts      \* the send_alert calls, with the list each was given

\* The state of the DeploymentManager.
dvars == <<sites, parallel, mpc, cur, pc, idx, result, results, trace, warnings,
           summary, saved, repo>>

\* The state of the RollbackManager and of the file system it works on.
bvars == <<clock, backup_dir, live, made, bk_ret>>

\* The state of the SiteMonitor.
mvars == <<mon_pc, mon_i, mon_results, probed, alerts>>

vars == <<dvars, bvars, mvars>>

\* ------------------------------------------------------- site descriptors
\* A Site Descriptor.  has_pre_deploy / has_post_deploy / has_health_check_url
\* tell whether the key is present in the JSON object; local_path_exists is
\* what os.path.exists(site['local_path']) answers.
Site(name, exists, hasPre, pre, method, hasPost, post, hasHealth) ==
    [name |-> name, local_path_exists |-> exists,
     has_pre_deploy |-> hasPre, pre_deploy |-> pre,
     deploy_method |-> method,
     has_post_deploy |-> hasPost, post_deploy |-> post,
     has_health_check_url |-> hasHealth]

\* The shapes of site a sequential run is explored over (unnamed).
SiteKinds ==
    { Site(0, FALSE, TRUE,  <<"p1">>,       "ssh",  TRUE,  <<"q1">>,       TRUE),
      Site(0, TRUE,  TRUE,  <<"p1", "p2">>, "ssh",  TRUE,  <<"q1", "q2">>, TRUE),
      Site(0, TRUE,  FALSE, <<>>,           "git",  FALSE, <<>>,           FALSE),
      Site(0, TRUE,  TRUE,  <<>>,           "ftp",  TRUE,  <<"q1">>,       FALSE),
      Site(0, TRUE,  TRUE,  <<"p1">>,       "scp",  FALSE, <<>>,           TRUE) }

\* The shapes of site a parallel run is explored over (unnamed).
ParSiteKinds ==
    { Site(0, FALSE, FALSE, <<>>, "ssh", FALSE, <<>>, FALSE),
      Site(0, TRUE,  FALSE, <<>>, "ssh", FALSE, <<>>, FALSE) }

\* Site lists of length n over the shapes kinds: the i-th site is named i
\* (names are unique).
SiteLists(n, kinds) ==
    { [i \in 1..n |-> [f[i] EXCEPT !.name = i]] : f \in [1..n -> kinds] }

Configs ==
    UNION { SiteLists(n, SiteKinds) : n \in 0..MaxSites }

ParConfigs ==
    UNION { SiteLists(n, ParSiteKinds) : n \in 0..MaxParSites }

N == Len(sites)
Idx == 1..N

\* ------------------------------------------------------------ run_command
\* What subprocess.run can do with a command.
CmdOutcomes == {"ok", "nonzero", "timeout", "oserror"}

NoError == <<>>

\* The message of the exception run_command raises for an outcome of
\* subprocess.run (NoError when it returns stdout).  The "Command failed"
\* exception is raised inside the try block, so the generic handler wraps it.
run_command(out) ==
    CASE out = "ok"      -> NoError
      [] out = "timeout" -> <<"Command timed out">>
      [] out = "nonzero" -> <<"Command execution error", "Command failed">>
      [] OTHER           -> <<"Command execution error", "OSError">>

\* ----------------------------------------------------------- health_check
\* What requests.get can do with the health check URL.
HealthOutcomes == {"200", "503", "error"}

\* health_check never raises: it returns the warning it logged, if any.
health_check(h) ==
    CASE h = "200" -> <<>>
      [] h = "503" -> <<"Site returned status">>
      [] OTHER     -> <<"Health check failed">>

\* ------------------------------------------------------------ deploy_site
NoResult == [site |-> 0, status |-> "none", error |-> NoError]

SuccessResult(s) == [site |-> s.name, status |-> "success", error |-> NoError]

FailedResult(s, e) == [site |-> s.name, status |-> "failed", error |-> e]

\* An external step deploy_site ran: which stage, which command, what the
\* call did (out), and the error deploy_site got from it.
Ev(stage, cmd, out, e) == [stage |-> stage, cmd |-> cmd, out |-> out, error |-> e]

\* The commands the Transfer Executor of a method runs.
TransferCmds(s) ==
    CASE s.deploy_method = "ftp" -> <<"lftp">>
      [] s.deploy_method = "ssh" -> <<"rsync">>
      [] s.deploy_method = "git" -> <<"cd", "git add", "git commit", "git push">>
      [] OTHER                   -> <<>>

KnownMethod(s) == s.deploy_method \in {"ftp", "ssh", "git"}

\* Where deploy_site goes after the health check step (or without one).
AfterHealth(s) == "append"

\* Where deploy_site goes after the last post-deploy command.
AfterPost(s) ==
    IF s.has_health_check_url THEN "health" ELSE AfterHealth(s)

\* Where deploy_site goes after the transfer.
AfterTransfer(s) ==
    IF s.has_post_deploy /\ Len(s.post_deploy) > 0 THEN "post" ELSE AfterPost(s)

\* Variant of AfterValidate: the pre-deploy commands are passed over.
AfterValidateSkipsPre(s) == "transfer"

\* Where deploy_site goes after the validation.
AfterValidate(s) ==
    IF s.has_pre_deploy /\ Len(s.pre_deploy) > 0 THEN "pre" ELSE "transfer"

\* deploy_site(sites[i]) moves to stage st, at its first command; reaching
\* "append" without an exception builds the success result.
Goto(i, st) ==
    /\ pc' = [pc EXCEPT ![i] = st]
    /\ idx' = [idx EXCEPT ![i] = 1]
    /\ result' = IF st = "append"
                   THEN [result EXCEPT ![i] = SuccessResult(sites[i])]
                   ELSE result

\* The except clause of deploy_site: the failed result, then the append.
Raise(i, e) ==
    /\ pc' = [pc EXCEPT ![i] = "append"]
    /\ idx' = [idx EXCEPT ![i] = 1]
    /\ result' = [result EXCEPT ![i] = FailedResult(sites[i], e)]

\* Variant of CommandStep: the error of a command is dropped and the loop
\* goes on.
CommandStepContinue(i, cmds, e, after) ==
    IF idx[i] < Len(cmds)
      THEN /\ idx' = [idx EXCEPT ![i] = @ + 1]
           /\ UNCHANGED <<pc, result>>
      ELSE Goto(i, after)

\* One command of a command loop of deploy_site: stop at the first error,
\* else go on with the next command, or leave the loop after the last one.
CommandStep(i, cmds, e, after) ==
    IF e # NoError
      THEN Raise(i, e)
      ELSE IF idx[i] < Len(cmds)
             THEN /\ idx' = [idx EXCEPT ![i] = @ + 1]
                  /\ UNCHANGED <<pc, result>>
             ELSE Goto(i, after)

\* max_workers of the ThreadPoolExecutor.
max_workers == 3

Active == { i \in Idx : pc[i] \notin {"pending", "done"} }

\* Variant of WorkerAvailable: a thread per submitted site.
WorkerAlwaysAvailable == TRUE

\* A worker thread of the pool is free to take the next work item.
WorkerAvailable == Cardinality(Active) < max_workers

\* deploy_site(sites[i]) is entered: by the for-loop at its index, or by a
\* pool worker taking the next submitted site off the work queue.
Start(i) ==
    /\ mpc = "deploying"
    /\ pc[i] = "pending"
    /\ IF parallel
         THEN /\ \A j \in 1..(i - 1) : pc[j] # "pending"
              /\ WorkerAvailable
         ELSE cur = i
    /\ pc' = [pc EXCEPT ![i] = "validate"]
    /\ UNCHANGED <<repo, sites, parallel, mpc, cur, idx, result, results, trace,
                   warnings, summary, saved>>
    /\ UNCHANGED <<bvars, mvars>>

\* Variant of PathError: the local path is not tested.
PathErrorIgnored(s) == NoError

\* The exception of the os.path.exists test of step 1.
PathError(s) ==
    IF s.local_path_exists THEN NoError ELSE <<"Local path not found">>

\* Step 1: validate the site directory.
Validate(i) ==
    /\ pc[i] = "validate"
    /\ LET e == PathError(sites[i])
       IN  /\ trace' = [trace EXCEPT ![i] = Append(@, Ev("validate", "exists", sites[i].local_path_exists, e))]
           /\ IF e # NoError THEN Raise(i, e) ELSE Goto(i, AfterValidate(sites[i]))
    /\ UNCHANGED <<repo, sites, parallel, mpc, cur, results, warnings, summary, saved>>
    /\ UNCHANGED <<bvars, mvars>>

\* Step 2: one pre-deploy command.
PreDeploy(i) ==
    /\ pc[i] = "pre"
    /\ \E out \in CmdOutcomes :
         LET e == run_command(out)
             cmds == sites[i].pre_deploy
         IN  /\ trace' = [trace EXCEPT ![i] = Append(@, Ev("pre", cmds[idx[i]], out, e))]
             /\ CommandStep(i, cmds, e, "transfer")
    /\ UNCHANGED <<repo, sites, parallel, mpc, cur, results, warnings, summary, saved>>
    /\ UNCHANGED <<bvars, mvars>>

\* What a transfer command can do.  git commit exits nonzero when there is
\* nothing to commit, so on a clean working tree it cannot succeed.
TransferOutcomes(cmd, tree) ==
    IF cmd = "git commit" /\ tree = "clean"
      THEN CmdOutcomes \ {"ok"}
      ELSE CmdOutcomes

\* The working tree after a transfer command: a commit that succeeds leaves
\* it clean.
WorkingTree(cmd, out, tree) ==
    IF cmd = "git commit" /\ out = "ok" THEN "clean" ELSE tree

\* Step 3: the dispatch on deploy_method, and one command of the transfer.
Transfer(i) ==
    /\ pc[i] = "transfer"
    /\ IF ~KnownMethod(sites[i])
         THEN /\ Raise(i, <<"Unknown deploy method">>)
              /\ UNCHANGED <<trace, repo>>
         ELSE LET cmds == TransferCmds(sites[i])
              IN  \E out \in TransferOutcomes(cmds[idx[i]], repo[i]) :
                    LET e == run_command(out)
                    IN  /\ trace' = [trace EXCEPT ![i] =
                                       Append(@, Ev("transfer", cmds[idx[i]], out, e))]
                        /\ repo' = [repo EXCEPT ![i] =
                                       WorkingTree(cmds[idx[i]], out, @)]
                        /\ CommandStep(i, cmds, e, AfterTransfer(sites[i]))
    /\ UNCHANGED <<sites, parallel, mpc, cur, results, warnings, summary, saved>>
    /\ UNCHANGED <<bvars, mvars>>

\* Variant of PostDeploy: a failing post-deploy command is logged only.
PostDeployIgnoresFailure(i) ==
    /\ pc[i] = "post"
    /\ \E out \in CmdOutcomes :
         LET e == run_command(out)
             cmds == sites[i].post_deploy
         IN  /\ trace' = [trace EXCEPT ![i] = Append(@, Ev("post", cmds[idx[i]], out, e))]
             /\ CommandStep(i, cmds, NoError, AfterPost(sites[i]))
    /\ UNCHANGED <<repo, sites, parallel, mpc, cur, results, warnings, summary, saved>>
    /\ UNCHANGED <<bvars, mvars>>

\* Step 4: one post-deploy command (run remotely).
PostDeploy(i) ==
    /\ pc[i] = "post"
    /\ \E out \in CmdOutcomes :
         LET e == run_command(out)
             cmds == sites[i].post_deploy
         IN  /\ trace' = [trace EXCEPT ![i] = Append(@, Ev("post", cmds[idx[i]], out, e))]
             /\ CommandStep(i, cmds, e, AfterPost(sites[i]))
    /\ UNCHANGED <<repo, sites, parallel, mpc, cur, results, warnings, summary, saved>>
    /\ UNCHANGED <<bvars, mvars>>

\* Variant of HealthError: a probe that is not UP raises.
HealthErrorRaises(h) == health_check(h)

\* The exception health_check lets through to deploy_site: none, its own
\* try/except turns every failure of the probe into a warning.
HealthError(h) == NoError

\* Step 5: the health check; its outcome is only logged.
HealthCheck(i) ==
    /\ pc[i] = "health"
    /\ \E h \in HealthOutcomes :
         LET e == HealthError(h)
         IN  /\ trace' = [trace EXCEPT ![i] = Append(@, Ev("health", "get", h, e))]
             /\ warnings' = [warnings EXCEPT ![i] = @ \o health_check(h)]
             /\ IF e # NoError THEN Raise(i, e) ELSE Goto(i, AfterHealth(sites[i]))
    /\ UNCHANGED <<repo, sites, parallel, mpc, cur, results, summary, saved>>
    /\ UNCHANGED <<bvars, mvars>>

\* Variant of NextSite: the loop is left at the first failed site.
NextSiteStopOnFailure(i) ==
    IF result[i].status = "failed" THEN N + 1 ELSE i + 1

\* The index the for-loop of deploy_all goes on with after deploy_site(i).
NextSite(i) == i + 1

\* Variant of ListAppend: the result is put at the front.
ListPrepend(l, r) == <<r>> \o l

\* list.append: one atomic step of the interpreter.
ListAppend(l, r) == Append(l, r)

\* self.results.append(result); return result.
AppendResult(i) ==
    /\ pc[i] = "append"
    /\ results' = ListAppend(results, result[i])
    /\ pc' = [pc EXCEPT ![i] = "done"]
    /\ cur' = IF parallel THEN cur ELSE NextSite(i)
    /\ UNCHANGED <<repo, sites, parallel, mpc, idx, result, trace, warnings, summary, saved>>
    /\ UNCHANGED <<bvars, mvars>>

\* ------------------------------------------------------------- deploy_all
\* deploy_all is entered: sites are read, the pool gets every site submitted
\* (parallel) or the for-loop starts at the first site (sequential).
DeployAll ==
    /\ mpc = "start"
    /\ mpc' = "deploying"
    /\ UNCHANGED <<repo, sites, parallel, cur, pc, idx, result, results, trace, warnings,
                   summary, saved>>
    /\ UNCHANGED <<bvars, mvars>>

\* Variant of ExecutorJoined: the pool is not waited for.
ExecutorNotJoined == TRUE

\* Leaving the with-block of the ThreadPoolExecutor: shutdown(wait=True)
\* returns when every submitted work item has run to its end.
ExecutorJoined == \A i \in Idx : pc[i] = "done"

\* Variant of LoopFinished: the for-loop waits for one site more than are
\* configured.
LoopFinishedLate == cur > N + 1

\* The sequential for-loop is exhausted.
LoopFinished == cur > N

Count(st) == Cardinality({ k \in 1..Len(results) : results[k].status = st })

\* print_summary: counts the results, lists the failed ones.
PrintSummary ==
    /\ mpc = "deploying"
    /\ IF parallel THEN ExecutorJoined ELSE LoopFinished
    /\ summary' = [success |-> Count("success"),
                   failed |-> Count("failed"),
                   total |-> Len(results),
                   failures |-> SelectSeq(results, LAMBDA r : r.status = "failed"),
                   running |-> Active]
    /\ mpc' = "save"
    /\ UNCHANGED <<repo, sites, parallel, cur, pc, idx, result, results, trace, warnings,
                   saved>>
    /\ UNCHANGED <<bvars, mvars>>

\* save_results: dumps self.results.
SaveResults ==
    /\ mpc = "save"
    /\ saved' = [results |-> results, running |-> Active]
    /\ mpc' = "done"
    /\ UNCHANGED <<repo, sites, parallel, cur, pc, idx, result, results, trace, warnings,
                   summary>>
    /\ UNCHANGED <<bvars, mvars>>

NoSummary == [success |-> 0, failed |-> 0, total |-> 0, failures |-> <<>>,
              running |-> {}]

NoSaved == [results |-> <<>>, running |-> {}]

\* ======================================================================
\* rollback.py: RollbackManager
\* ======================================================================
\* Strings are sequences of characters.  Alphabet lists the characters the
\* model uses in code point order, which is the order Python compares by.
Alphabet == <<"0", "1", "2", "3", "4", "5", "6", "7", "8", "9",
              "_", "a", "b", "k", "n", "o", "u", "w">>

Ord(c) == CHOOSE k \in 1..Len(Alphabet) : Alphabet[k] = c

Digit(d) == Alphabet[d + 1]

\* The site names backups are made for: the second starts with the first.
SiteNames == { <<"a">>, <<"a", "b">> }

\* The contents a site path can have; Absent when the path does not exist.
Absent == "absent"

\* str < str of Python: lexicographic by code point, a proper prefix first.
RECURSIVE StrLess(_, _)
StrLess(x, y) ==
    IF y = <<>> THEN FALSE
    ELSE IF x = <<>> THEN TRUE
    ELSE IF x[1] # y[1] THEN Ord(x[1]) < Ord(y[1])
    ELSE StrLess(Tail(x), Tail(y))

\* item.startswith(site_name)
StartsWith(item, prefix) ==
    /\ Len(prefix) <= Len(item)
    /\ SubSeq(item, 1, Len(prefix)) = prefix

\* datetime.now().strftime('%Y%m%d_%H%M%S'): fixed width, zero padded, with
\* the underscore between the date part and the time part.
strftime(t) == <<Digit(t \div 10), "_", Digit(t % 10)>>

\* f"{site_name}_{timestamp}"
BackupName(site_name, timestamp) == site_name \o <<"_">> \o timestamp

\* item.split('_', 1)[1] if '_' in item else 'unknown'
TimestampOf(item) ==
    IF \E k \in 1..Len(item) : item[k] = "_"
      THEN LET k == CHOOSE j \in 1..Len(item) :
                      /\ item[j] = "_"
                      /\ \A h \in 1..(j - 1) : item[h] # "_"
           IN  SubSeq(item, k + 1, Len(item))
      ELSE <<"u", "n", "k", "n", "o", "w", "n">>

\* The test of list_backups that takes a directory entry for a backup of
\* the site.
Matches(item, site_name) == StartsWith(item, site_name)

\* The directory entries list_backups(site_name) collects, as the records
\* it builds for them.
Listed(dir, site_name) ==
    { [name |-> e.name, timestamp |-> TimestampOf(e.name)] :
        e \in { d \in dir : Matches(d.name, site_name) } }

\* The orders backups.sort(key=timestamp, reverse=True) can leave the
\* records in: descending by timestamp, records with equal timestamps in
\* the order os.listdir gave them, which is arbitrary.
RECURSIVE SortedDescending(_)
SortedDescending(S) ==
    IF S = {} THEN { <<>> }
    ELSE LET top == { x \in S : \A y \in S : ~StrLess(x.timestamp, y.timestamp) }
         IN  UNION { { <<x>> \o rest : rest \in SortedDescending(S \ {x}) } : x \in top }

\* list_backups(site_name): the lists it can return.
list_backups(dir, site_name) == SortedDescending(Listed(dir, site_name))

\* The default of the keep parameter of cleanup_old_backups.
keep == 5

\* cleanup_old_backups(site_name) when list_backups returned l: the
\* directory without the entries of l[keep:].
cleanup_old_backups(dir, l) ==
    LET doomed == { l[k].name : k \in (keep + 1)..Len(l) }
    IN  { e \in dir : e.name \notin doomed }

\* The outcome of an operation on the site paths and the backups: which
\* one, for which site, the backup_name it was asked for, the content of
\* the site path when it was called, whether it returned normally (ok) or
\* returned False / raised, the backup it made or restored, the error, and
\* the file system steps it took.
Ret(op, site, asked, before, ok, name, error, steps) ==
    [op |-> op, site |-> site, asked |-> asked, before |-> before, ok |-> ok,
     name |-> name, error |-> error, steps |-> steps]

\* No backup_name (None), and no backup.
NoName == <<>>

\* create_backup(site_name, site_path), called dt seconds after the last
\* operation, the clock being followed up to second horizon.  copytree
\* raises when the source is missing or the target exists; else the new
\* entry is added and the retention is enforced.  owner and nth record
\* which site the entry was made for and as which of its backups.
create_backup_until(s, horizon) ==
    \E dt \in 0..1 :
      LET name == BackupName(s, strftime(clock + dt))
          entry == [name |-> name, content |-> live[s], owner |-> s, nth |-> made[s] + 1]
      IN  /\ clock + dt <= horizon
          /\ clock' = clock + dt
          /\ IF live[s] = Absent
               THEN /\ bk_ret' = Ret("create", s, NoName, live[s], FALSE, NoName,
                                     "FileNotFoundError", <<"copytree">>)
                    /\ UNCHANGED <<backup_dir, made>>
               ELSE IF \E e \in backup_dir : e.name = name
               THEN /\ bk_ret' = Ret("create", s, NoName, live[s], FALSE, NoName,
                                     "FileExistsError", <<"copytree">>)
                    /\ UNCHANGED <<backup_dir, made>>
               ELSE /\ \E l \in list_backups(backup_dir \cup {entry}, s) :
                         backup_dir' = cleanup_old_backups(backup_dir \cup {entry}, l)
                    /\ made' = [made EXCEPT ![s] = @ + 1]
                    /\ bk_ret' = Ret("create", s, NoName, live[s], TRUE, name, "none",
                                     <<"copytree", "cleanup">>)
          /\ UNCHANGED live
          /\ UNCHANGED <<dvars, mvars>>

\* create_backup(site_name, site_path).
create_backup(s) == create_backup_until(s, MaxClock)

\* The contents a deployment gives a site path.
Contents == {"v1", "v2"}

\* What is left of a tree that rmtree or copytree gave up on midway.
Partial == "partial"

\* A deployment (or anything else) rewrites the site path of site s.
write_live(s) ==
    /\ \E c \in Contents \ {live[s]} : live' = [live EXCEPT ![s] = c]
    /\ bk_ret' = Ret("write", s, NoName, live[s], TRUE, NoName, "none", <<>>)
    /\ UNCHANGED <<clock, backup_dir, made>>
    /\ UNCHANGED <<dvars, mvars>>

\* What shutil.copytree(backup['path'], site_path) can do: copy the tree,
\* raise before the target is made (the source cannot be read), or raise
\* with the target partly written.
CopyOutcomes == {"ok", "error", "partial"}

\* As SelectBackup, but taking the first backup whatever name is asked for.
SelectFirst(l, backup_name) == { l[k] : k \in { j \in 1..Len(l) : j = 1 } }

\* The backup rollback selects from the list l: the first when no name is
\* given, else the one of that name; the empty set when there is none.
SelectBackup(l, backup_name) ==
    IF backup_name = NoName
      THEN { l[k] : k \in { j \in 1..Len(l) : j = 1 } }
      ELSE { l[k] : k \in { j \in 1..Len(l) : l[j].name = backup_name } }

\* The content of the backup directory entry of a name.
ContentOf(dir, name) == (CHOOSE e \in dir : e.name = name).content

\* The file system steps of rollback after a backup is resolved: the site
\* path is removed if it exists, then the backup is copied to it.
RestoreStepsCopyFirst(content) ==
    <<"copytree">> \o (IF content # Absent THEN <<"rmtree">> ELSE <<>>)

RestoreSteps(content) ==
    (IF content # Absent THEN <<"rmtree">> ELSE <<>>) \o <<"copytree">>

\* The outcomes of rollback once a backup is resolved, one for each thing
\* copytree can do.
Restore(s, backup_name, backup) ==
    LET steps == <<"list", "select">> \o RestoreSteps(live[s])
    IN  \E cp \in CopyOutcomes :
          CASE cp = "ok" ->
                 /\ live' = [live EXCEPT ![s] = ContentOf(backup_dir, backup.name)]
                 /\ bk_ret' = Ret("rollback", s, backup_name, live[s], TRUE,
                                  backup.name, "none", steps)
            [] cp = "error" ->
                 /\ live' = [live EXCEPT ![s] = Absent]
                 /\ bk_ret' = Ret("rollback", s, backup_name, live[s], FALSE,
                                  backup.name, "copytree raised", steps)
            [] OTHER ->
                 /\ live' = [live EXCEPT ![s] = Partial]
                 /\ bk_ret' = Ret("rollback", s, backup_name, live[s], FALSE,
                                  backup.name, "copytree raised", steps)

\* rollback(site_name, site_path, backup_name).  The list of backups is any
\* of those list_backups can return.
rollback(s, backup_name) ==
    /\ \E sel \in { SelectBackup(l, backup_name) : l \in list_backups(backup_dir, s) } :
         IF Listed(backup_dir, s) = {}
           THEN /\ bk_ret' = Ret("rollback", s, backup_name, live[s], FALSE, NoName,
                                 "No backups found", <<"list">>)
                /\ UNCHANGED live
         ELSE IF sel = {}
           THEN /\ bk_ret' = Ret("rollback", s, backup_name, live[s], FALSE, NoName,
                                 "Backup not found", <<"list", "select">>)
                /\ UNCHANGED live
         ELSE Restore(s, backup_name, CHOOSE b \in sel : TRUE)
    /\ UNCHANGED <<clock, backup_dir, made>>
    /\ UNCHANGED <<dvars, mvars>>

\* The state after RollbackManager() is constructed over an empty backup
\* directory, every site path holding its first deployment.
BackupInit ==
    /\ clock = 0
    /\ backup_dir = {}
    /\ live = [s \in SiteNames |-> "v1"]
    /\ made = [s \in SiteNames |-> 0]
    /\ bk_ret = Ret("none", NoName, NoName, Absent, TRUE, NoName, "none", <<>>)

\* ======================================================================
\* monitor.py: SiteMonitor
\* ======================================================================
\* The site descriptors as the monitor reads them: with or without a
\* health_check_url.
MonitorKinds ==
    { Site(0, TRUE, FALSE, <<>>, "ssh", FALSE, <<>>, h) : h \in BOOLEAN }

MonitorConfigs == UNION { SiteLists(n, MonitorKinds) : n \in 1..MaxMonSites }

\* The status check_site gives a probe: UP for status code 200, DOWN for
\* any other response, ERROR when requests.get raised.
SiteStatus(h) ==
    CASE h = "200" -> "UP"
      [] h = "503" -> "DOWN"
      [] OTHER     -> "ERROR"

\* check_all is entered.
CheckAll ==
    /\ mon_pc = "idle"
    /\ mon_pc' = "checking"
    /\ UNCHANGED <<mon_i, mon_results, probed, alerts>>
    /\ UNCHANGED <<dvars, bvars>>

\* One turn of the for-loop of check_all: check_site returns None for a
\* site without health_check_url, else it probes the URL and its result is
\* appended.
CheckSite(i) ==
    /\ mon_pc = "checking"
    /\ mon_i = i
    /\ IF ~sites[i].has_health_check_url
         THEN UNCHANGED <<mon_results, probed>>
         ELSE \E h \in HealthOutcomes :
                /\ probed' = Append(probed, [site |-> sites[i].name, out |-> h])
                /\ mon_results' = Append(mon_results,
                                         [site |-> sites[i].name, status |-> SiteStatus(h)])
    /\ mon_i' = i + 1
    /\ UNCHANGED <<mon_pc, alerts>>
    /\ UNCHANGED <<dvars, bvars>>

\* Variant of DownSites: only the sites that answered with another status
\* code.
DownSitesOnly(rs) == SelectSeq(rs, LAMBDA r : r.status = "DOWN")

\* down_sites = [r for r in results if r['status'] != 'UP']
DownSites(rs) == SelectSeq(rs, LAMBDA r : r.status # "UP")

\* The end of check_all: send_alert(down_sites) if there are any, and the
\* return.
Alert ==
    /\ mon_pc = "checking"
    /\ mon_i > N
    /\ alerts' = IF DownSites(mon_results) # <<>>
                   THEN Append(alerts, DownSites(mon_results))
                   ELSE alerts
    /\ mon_pc' = "done"
    /\ UNCHANGED <<mon_i, mon_results, probed>>
    /\ UNCHANGED <<dvars, bvars>>

\* The state after SiteMonitor(config) is constructed.
MonitorInit ==
    /\ mon_pc = "idle"
    /\ mon_i = 1
    /\ mon_results = <<>>
    /\ probed = <<>>
    /\ alerts = <<>>

\* The state after DeploymentManager(config) is constructed over one of the
\* site lists cfgs, with deploy_all(parallel=par) about to be called.
InitRun(par, cfgs) ==
    /\ parallel = par
    /\ sites \in cfgs
    /\ mpc = "start"
    /\ cur = 1
    /\ pc = [i \in 1..Len(sites) |-> "pending"]
    /\ idx = [i \in 1..Len(sites) |-> 1]
    /\ result = [i \in 1..Len(sites) |-> NoResult]
    /\ results = <<>>
    /\ trace = [i \in 1..Len(sites) |-> <<>>]
    /\ warnings = [i \in 1..Len(sites) |-> <<>>]
    /\ summary = NoSummary
    /\ saved = NoSaved
    /\ repo = [i \in 1..Len(sites) |-> "dirty"]
    /\ BackupInit
    /\ MonitorInit

\* A run of either mode.
Init == \E par \in BOOLEAN : InitRun(par, IF par THEN ParConfigs ELSE Configs)

\* A sequential run.
SeqInit == InitRun(FALSE, Configs)

Next ==
    \/ DeployAll
    \/ \E i \in Idx : Start(i)
    \/ \E i \in Idx : Validate(i)
    \/ \E i \in Idx : PreDeploy(i)
    \/ \E i \in Idx : Transfer(i)
    \/ \E i \in Idx : PostDeploy(i)
    \/ \E i \in Idx : HealthCheck(i)
    \/ \E i \in Idx : AppendResult(i)
    \/ PrintSummary
    \/ SaveResults

Spec == Init /\ [][Next]_vars

SeqSpec == SeqInit /\ [][Next]_vars

\* The parallel configurations termination is followed over: as many
\* sites as a parallel run can have, the first with or without its local
\* path, the others with theirs.
LiveParConfigs ==
    { c \in SiteLists(MaxParSites, ParSiteKinds) :
        \A i \in 2..MaxParSites : c[i].local_path_exists }

\* A run of either mode, the parallel ones over LiveParConfigs.
LiveInit == \E par \in BOOLEAN : InitRun(par, IF par THEN LiveParConfigs ELSE Configs)

\* A run of either mode in which every external call returns or times out
\* and every thread that can take a step is scheduled in the end: the run
\* does not stop while a step of it can be taken.
LiveSpec == LiveInit /\ [][Next]_vars /\ WF_vars(Next)

\* The program is run again on the same configuration and the same local
\* paths: main() builds a new DeploymentManager and calls deploy_all.
Rerun ==
    /\ mpc = "done"
    /\ mpc' = "start"
    /\ cur' = 1
    /\ pc' = [i \in Idx |-> "pending"]
    /\ idx' = [i \in Idx |-> 1]
    /\ result' = [i \in Idx |-> NoResult]
    /\ results' = <<>>
    /\ trace' = [i \in Idx |-> <<>>]
    /\ warnings' = [i \in Idx |-> <<>>]
    /\ summary' = NoSummary
    /\ saved' = NoSaved
    /\ UNCHANGED <<sites, parallel, repo>>
    /\ UNCHANGED <<bvars, mvars>>

\* deploy_all is called again on the same DeploymentManager: the call
\* starts over, self.results is what the earlier calls left.
DeployAllAgain ==
    /\ mpc = "done"
    /\ Len(results) < MaxCalls * N
    /\ mpc' = "start"
    /\ cur' = 1
    /\ pc' = [i \in Idx |-> "pending"]
    /\ idx' = [i \in Idx |-> 1]
    /\ result' = [i \in Idx |-> NoResult]
    /\ trace' = [i \in Idx |-> <<>>]
    /\ warnings' = [i \in Idx |-> <<>>]
    /\ UNCHANGED <<sites, parallel, results, summary, saved, repo>>
    /\ UNCHANGED <<bvars, mvars>>

ReuseNext ==
    \/ Next
    \/ DeployAllAgain

\* Sequential deploy_all calls on one DeploymentManager.
ReuseSpec == SeqInit /\ [][ReuseNext]_vars

\* The sequential configurations that have a git site.
GitConfigs == { c \in Configs : \E i \in 1..Len(c) : c[i].deploy_method = "git" }

GitNext ==
    \/ Next
    \/ Rerun

\* Sequential runs of the program, one after the other.
GitSpec == InitRun(FALSE, GitConfigs) /\ [][GitNext]_vars

\* The SiteMonitor on its own: one check_all over a configuration.
MonitorNext ==
    \/ CheckAll
    \/ \E i \in Idx : CheckSite(i)
    \/ Alert

MonitorSpec == InitRun(FALSE, MonitorConfigs) /\ [][MonitorNext]_vars

\* The RollbackManager on its own: no deployment is running.
BackupNext ==
    \/ \E s \in SiteNames : create_backup(s)

BackupSpec == InitRun(FALSE, { <<>> }) /\ [][BackupNext]_vars

\* list_backups(site_name) as an operation: one of the lists it can return
\* is handed to the caller.
ListBackups(s) ==
    /\ \E l \in list_backups(backup_dir, s) :
         bk_ret' = [op |-> "list", site |-> s, listed |-> l]
    /\ UNCHANGED <<clock, backup_dir, live, made>>
    /\ UNCHANGED <<dvars, mvars>>

\* Backups are made and listed, in any order.
ListNext ==
    \/ \E s \in SiteNames : create_backup(s)
    \/ \E s \in SiteNames : ListBackups(s)

ListSpec == InitRun(FALSE, { <<>> }) /\ [][ListNext]_vars

\* The backup names a caller of rollback may pass: none, or the name of a
\* backup made, or one that could have been made, up to now.
BackupNames ==
    {NoName} \cup { BackupName(s, strftime(t)) : s \in SiteNames, t \in 0..clock }

\* Backups, deployments and rollbacks of the sites, in any order.
RollbackNext ==
    \/ \E s \in SiteNames : create_backup_until(s, MaxRollbackClock)
    \/ \E s \in SiteNames : write_live(s)
    \/ \E s \in SiteNames : \E b \in BackupNames : rollback(s, b)

RollbackSpec == InitRun(FALSE, { <<>> }) /\ [][RollbackNext]_vars

\* ======================================================================
\* Properties of deploy_site and deploy_all
\* ======================================================================

\* The steps of a site in the order the contract gives them, each command
\* a step of its own: validate, pre-deploy, transfer, post-deploy, health.
StepsOf(stage, cmds) == [k \in 1..Len(cmds) |-> [stage |-> stage, cmd |-> cmds[k]]]

Plan(s) ==
    StepsOf("validate", <<"exists">>)
    \o (IF s.has_pre_deploy THEN StepsOf("pre", s.pre_deploy) ELSE <<>>)
    \o StepsOf("transfer", TransferCmds(s))
    \o (IF s.has_post_deploy THEN StepsOf("post", s.post_deploy) ELSE <<>>)
    \o (IF s.has_health_check_url THEN StepsOf("health", <<"get">>) ELSE <<>>)

\* The steps of a stage that site i has run, in the order it ran them.
Ran(i, stage) == SelectSeq(trace[i], LAMBDA ev : ev.stage = stage)

Errors(i) == { k \in 1..Len(trace[i]) : trace[i][k].error # NoError }

Finished(i) == pc[i] \in {"append", "done"}

\* The positions of the results list that hold a result of site i.
ResultsOf(i) == { k \in 1..Len(results) : results[k].site = sites[i].name }

RunOver == mpc \in {"save", "done"}

\* C1: the steps of every site run in the order validate, pre-deploy
\* commands, transfer, post-deploy commands, health check; a step runs only
\* after every earlier step of the site completed without error; after the
\* first error no later step runs and the site ends failed.
C1_StepOrder ==
    \A i \in Idx :
      LET t == trace[i]
          p == Plan(sites[i])
      IN  /\ Len(t) <= Len(p)
          /\ \A k \in 1..Len(t) : t[k].stage = p[k].stage /\ t[k].cmd = p[k].cmd
          /\ \A k \in 1..Len(t) : t[k].error # NoError => k = Len(t)
          /\ Errors(i) # {} => Finished(i) /\ result[i].status = "failed"
          /\ (pc[i] = "done" /\ Errors(i) # {}) =>
               \E k \in ResultsOf(i) : results[k].status = "failed"

\* A site failed in the middle of its plan: the transfer ran, a post-deploy
\* command failed, and the rest of the plan was not run.
C1_Witness ==
    \E i \in Idx :
      /\ pc[i] = "done"
      /\ Len(Ran(i, "pre")) = 2
      /\ Len(Ran(i, "post")) = 1
      /\ Errors(i) = {Len(trace[i])}
      /\ Len(trace[i]) < Len(Plan(sites[i]))

\* A site failed on its own account: one of its steps raised, or its
\* deploy method is none of ftp, ssh, git.
OwnFailure(i) == Errors(i) # {} \/ ~KnownMethod(sites[i])

\* C2: a failing site never aborts a deploy_all run: every configured site
\* is attempted, a failing site gets a failed result, and every site's
\* status depends on its own steps only.
C2_RunNeverAborts ==
    RunOver =>
      \A i \in Idx :
        /\ Len(trace[i]) >= 1
        /\ Cardinality(ResultsOf(i)) = 1
        /\ \A k \in ResultsOf(i) :
             results[k].status = IF OwnFailure(i) THEN "failed" ELSE "success"

\* Three ssh sites, the first with a missing local path: 2 success, 1 failed.
C2_Witness ==
    /\ mpc = "done"
    /\ N = 3
    /\ \A i \in Idx : sites[i].deploy_method = "ssh"
    /\ ~sites[1].local_path_exists
    /\ sites[2].local_path_exists /\ sites[3].local_path_exists
    /\ summary.success = 2 /\ summary.failed = 1

\* C3: a sequential deploy_all over N sites leaves exactly N results, the
\* i-th being the result of the i-th configured site.
C3_SequentialResultsInOrder ==
    (RunOver /\ ~parallel) =>
      /\ Len(results) = N
      /\ \A i \in Idx : results[i] = result[i] /\ results[i].site = sites[i].name

C3_Witness ==
    /\ mpc = "done" /\ ~parallel /\ N = 2
    /\ results[1].status = "failed"
    /\ results[2].status = "success"

\* C4: a site whose local_path does not exist yields a failed result with
\* the "Local path not found" error, and its transfer is never invoked.
C4_MissingPathFails ==
    \A i \in Idx :
      ~sites[i].local_path_exists =>
        /\ Ran(i, "transfer") = <<>>
        /\ Ran(i, "pre") = <<>>
        /\ Finished(i) => result[i] = FailedResult(sites[i], <<"Local path not found">>)
        /\ pc[i] = "done" => \A k \in ResultsOf(i) : results[k] = result[i]
        /\ pc[i] = "done" => ResultsOf(i) # {}

C4_Witness ==
    \E i \in Idx :
      /\ ~sites[i].local_path_exists
      /\ pc[i] = "done"
      /\ \E k \in ResultsOf(i) : results[k].error = <<"Local path not found">>

\* C5: pre-deploy commands run in configured order; when one fails no later
\* pre-deploy command runs, the transfer is never invoked, and the site's
\* result is failed.
C5_PreDeployFailureStopsSite ==
    \A i \in Idx :
      LET r == Ran(i, "pre")
      IN  /\ Len(r) <= Len(sites[i].pre_deploy)
          /\ \A k \in 1..Len(r) : r[k].cmd = sites[i].pre_deploy[k]
          /\ \A k \in 1..Len(r) :
               r[k].error # NoError =>
                 /\ k = Len(r)
                 /\ Ran(i, "transfer") = <<>>
                 /\ Finished(i)
                 /\ result[i].status = "failed"
                 /\ pc[i] = "done" =>
                      \E j \in ResultsOf(i) : results[j].status = "failed"

\* The first of two pre-deploy commands failed.
C5_Witness ==
    \E i \in Idx :
      /\ Len(sites[i].pre_deploy) = 2
      /\ Len(Ran(i, "pre")) = 1
      /\ Ran(i, "pre")[1].error # NoError
      /\ pc[i] = "done"

\* Validation, pre-deploy commands, transfer and post-deploy commands of
\* site i all ran and succeeded.
DeployedClean(i) ==
    LET t == SelectSeq(trace[i], LAMBDA ev : ev.stage # "health")
        p == SelectSeq(Plan(sites[i]), LAMBDA st : st.stage # "health")
    IN  /\ KnownMethod(sites[i])
        /\ Len(t) = Len(p)
        /\ \A k \in 1..Len(t) : t[k].error = NoError

\* C6: when validation, pre-deploy, transfer and post-deploy all succeeded
\* the result is success whatever the health check returns; a health check
\* that is not UP only records a warning.
C6_HealthCheckAdvisory ==
    \A i \in Idx :
      (Finished(i) /\ DeployedClean(i)) =>
        /\ result[i].status = "success"
        /\ pc[i] = "done" => \A k \in ResultsOf(i) : results[k].status = "success"
        /\ Ran(i, "health") # <<>> => Ran(i, "health")[1].error = NoError

\* A probed site is not UP (a warning is recorded) and its result is success.
C6_Witness ==
    \E i \in Idx :
      /\ pc[i] = "done"
      /\ DeployedClean(i)
      /\ warnings[i] = <<"Site returned status">>
      /\ \E k \in ResultsOf(i) : results[k].status = "success"

\* C7: when a post-deploy command fails, the remaining post-deploy commands
\* are not run, the health check is not performed, and the result is failed
\* although the transfer has completed.
C7_PostDeployFailureStopsSite ==
    \A i \in Idx :
      LET r == Ran(i, "post")
      IN  \A k \in 1..Len(r) :
            r[k].error # NoError =>
              /\ k = Len(r)
              /\ Ran(i, "health") = <<>>
              /\ Len(Ran(i, "transfer")) = Len(TransferCmds(sites[i]))
              /\ \A j \in 1..Len(Ran(i, "transfer")) :
                   Ran(i, "transfer")[j].error = NoError
              /\ Finished(i)
              /\ result[i].status = "failed"
              /\ pc[i] = "done" =>
                   \E j \in ResultsOf(i) : results[j].status = "failed"

\* The first of two post-deploy commands failed on a site with a health check.
C7_Witness ==
    \E i \in Idx :
      /\ Len(sites[i].post_deploy) = 2
      /\ sites[i].has_health_check_url
      /\ Len(Ran(i, "post")) = 1
      /\ Ran(i, "post")[1].error # NoError
      /\ pc[i] = "done"

\* C8: in a parallel deploy_all at most 3 sites are being deployed at any
\* moment, and when the run completes every site has contributed exactly
\* one result: the results list holds exactly N results.
C8_ParallelBoundedAndComplete ==
    parallel =>
      /\ Cardinality(Active) <= 3
      /\ Len(results) = Cardinality({ i \in Idx : pc[i] = "done" })
      /\ \A i \in Idx : Cardinality(ResultsOf(i)) = IF pc[i] = "done" THEN 1 ELSE 0
      /\ RunOver => Len(results) = N

\* The pool is full while a further site waits for a free worker.
C8_Witness ==
    /\ parallel
    /\ Cardinality(Active) = 3
    /\ \E i \in Idx : pc[i] = "pending"

\* C9: in a parallel deploy_all the results list is only appended to, and
\* only while sites are being deployed; print_summary and save_results read
\* it only when no worker is running any more.
C9_ReadOnlyAfterJoin ==
    [][parallel =>
         /\ summary'.running = {} /\ saved'.running = {}
         /\ (mpc' \in {"save", "done"}) => \A i \in Idx : pc'[i] = "done"
         /\ results' # results =>
              /\ mpc = "deploying" /\ mpc' = "deploying"
              /\ \E i \in Idx : results' = Append(results, result[i])]_vars

\* The summary of a parallel run over 4 sites was taken and saved.
C9_Witness ==
    /\ parallel /\ mpc = "done" /\ N = 4
    /\ summary.total = 4
    /\ Len(saved.results) = 4
    /\ \E k \in 1..4 : results[k].site # k


\* The command steps site i has run.
CommandEvents(i) ==
    { trace[i][k] : k \in { j \in 1..Len(trace[i]) :
                              trace[i][j].stage \in {"pre", "transfer", "post"} } }

\* The failure kind an error of the Command Runner is reported as: the
\* kind its message begins with.
ReportedAs(e) ==
    CASE e = NoError                        -> "none"
      [] e[1] = "Command timed out"         -> "timeout"
      [] e[1] = "Command failed"            -> "command failure"
      [] e[1] = "Command execution error"   -> "execution error"
      [] OTHER                              -> "other"

\* C14: the Command Runner reports a command that ran into the timeout as
\* a timeout, a command that exited nonzero as a command failure, and any
\* other execution error as an execution error; a nonzero exit is reported
\* neither as an execution error nor as a timeout.
C14_FailureKindsDistinct ==
    \A i \in Idx : \A ev \in CommandEvents(i) :
      /\ ev.out = "ok" => ReportedAs(ev.error) = "none"
      /\ ev.out = "timeout" => ReportedAs(ev.error) = "timeout"
      /\ ev.out = "nonzero" => ReportedAs(ev.error) = "command failure"
      /\ ev.out = "oserror" => ReportedAs(ev.error) = "execution error"

\* C15: a git site deployed again with no local changes since its last
\* commit does not end failed only because git commit had nothing to
\* commit.
C15_GitRedeployNotFailed ==
    \A i \in Idx :
      LET t == trace[i]
      IN  ( /\ Finished(i)
            /\ sites[i].deploy_method = "git"
            /\ repo[i] = "clean"
            /\ Len(t) > 0
            /\ t[Len(t)].cmd = "git commit"
            /\ t[Len(t)].out = "nonzero" )
            => result[i].status # "failed"

\* The failed sites of the deploy_all call, each with its error message.
FailedSites ==
    { [site |-> sites[i].name, error |-> result[i].error] :
        i \in { j \in Idx : result[j].status = "failed" } }

\* C17: when a deploy_all call has reported its summary, the success count
\* plus the failed count is the number of configured sites, and the
\* itemized failures are exactly the sites of the call that failed, each
\* once, with its error message.
C17_SummaryCountsSites ==
    RunOver =>
      /\ summary.success + summary.failed = N
      /\ { [site |-> summary.failures[k].site, error |-> summary.failures[k].error] :
             k \in 1..Len(summary.failures) } = FailedSites
      /\ Len(summary.failures) = Cardinality(FailedSites)

\* C22: the results a deploy_all call summarizes and saves are the
\* results of that call only: its summary counts exactly the N configured
\* sites, and so does the file it saves, whatever was called on the
\* DeploymentManager before.
C22_SummaryOfOwnRunOnly ==
    /\ RunOver => summary.total = N
    /\ mpc = "done" => Len(saved.results) = N

\* Site i has reached a terminal state: deploy_site has returned with a
\* result of status success or failed.
Terminal(i) == pc[i] = "done" /\ result[i].status \in {"success", "failed"}

\* C23: in a run of either mode every site reaches a terminal state,
\* success or failed, and the run reaches the summary; a site that has
\* reached a terminal state keeps it, with the result it has.
C23_EverySiteTerminates ==
    /\ <>(RunOver /\ \A i \in Idx : Terminal(i))
    /\ [][\A i \in Idx : Terminal(i) => (Terminal(i)' /\ result'[i] = result[i])]_vars

\* A parallel run over more sites than the pool has workers has reached
\* the summary with every site terminal, some succeeded and some failed.
C23_Witness ==
    /\ parallel
    /\ N > max_workers
    /\ mpc = "done"
    /\ \A i \in Idx : Terminal(i)
    /\ \E i \in Idx : result[i].status = "success"
    /\ \E i \in Idx : result[i].status = "failed"
    /\ summary.total = N

\* ======================================================================
\* Properties of the SiteMonitor
\* ======================================================================

\* The sites with a health_check_url among the first n configured sites, in
\* the order of the configuration.
WithUrl(n) ==
    SelectSeq([k \in 1..n |-> sites[k].name],
              LAMBDA name : sites[name].has_health_check_url)

\* The sites whose probe did not find them UP: another status code than
\* 200 (DOWN) or no response (ERROR).
NotUp == { probed[k].site : k \in { j \in 1..Len(probed) : probed[j].out # "200" } }

\* C16: check_all probes every site that has a health_check_url and no
\* other; when it has returned it has raised exactly one alert if a probed
\* site was not UP, with exactly the sites that are DOWN or ERROR, and no
\* alert if all probed sites were UP; it raises none before.
C16_AlertOnceWithNonUpSites ==
    /\ [k \in 1..Len(probed) |-> probed[k].site] = WithUrl(mon_i - 1)
    /\ mon_pc # "done" => alerts = <<>>
    /\ mon_pc = "done" =>
         /\ mon_i = N + 1
         /\ Len(alerts) = IF NotUp = {} THEN 0 ELSE 1
         /\ \A a \in 1..Len(alerts) :
              /\ { alerts[a][k].site : k \in 1..Len(alerts[a]) } = NotUp
              /\ Len(alerts[a]) = Cardinality(NotUp)
              /\ \A k \in 1..Len(alerts[a]) :
                   alerts[a][k].status \in {"DOWN", "ERROR"}

\* check_all has returned over three sites, one without health_check_url,
\* one UP and one that did not respond: one alert, naming the last only.
C16_Witness ==
    /\ mon_pc = "done"
    /\ N = 3
    /\ Len(probed) = 2
    /\ \E k \in 1..2 : probed[k].out = "200"
    /\ \E k \in 1..2 : probed[k].out = "error"
    /\ Len(alerts) = 1
    /\ Len(alerts[1]) = 1
    /\ alerts[1][1].status = "ERROR"

\* ======================================================================
\* Properties of the RollbackManager
\* ======================================================================

\* The backups in the directory that were made for site s.
BackupsOf(s) == { e \in backup_dir : e.owner = s }

\* C10: after any sequence of create operations each site has at most 5
\* backups and they are its 5 most recently created ones: the 6th create
\* for a site leaves exactly 5, with exactly its oldest backup removed.
C10_RetentionKeepsNewestFive ==
    \A s \in SiteNames :
      /\ Cardinality(BackupsOf(s)) <= 5
      /\ { e.nth : e \in BackupsOf(s) } =
           { k \in 1..made[s] : k > made[s] - 5 }

\* The state is the one a rollback has just returned (or raised) in.
RolledBack == bk_ret.op = "rollback"

\* The outcome r is a failure that says no backup was found.
NotFound(r) == ~r.ok /\ r.error \in {"No backups found", "Backup not found"}

\* The names of the backups in the directory that were made for site s.
OwnNames(s) == { e.name : e \in BackupsOf(s) }

\* The most recently created of the backups of site s in the directory.
MostRecent(s) ==
    CHOOSE e \in BackupsOf(s) : \A f \in BackupsOf(s) : f.nth <= e.nth

\* C11: a rollback for a site that has no backups of its own fails with a
\* not-found outcome and leaves the site path as it was, whatever backups
\* there are for other sites.
C11_NoOwnBackupsNotFound ==
    (RolledBack /\ BackupsOf(bk_ret.site) = {})
      => /\ NotFound(bk_ret)
         /\ live[bk_ret.site] = bk_ret.before

\* C12: a successful rollback of a site to a named backup that was made for
\* the site and is still in the directory leaves the site path with the
\* content it had when the backup was made, whatever was written to it in
\* between.
C12_RoundTrip ==
    (RolledBack /\ bk_ret.ok /\ bk_ret.asked \in OwnNames(bk_ret.site))
      => live[bk_ret.site] = ContentOf(backup_dir, bk_ret.asked)

\* A rollback to a named backup of the site has just succeeded on a site
\* path that existed and held something else than the backup: the site
\* path now holds what the backup was made from.
C12_Witness ==
    /\ RolledBack /\ bk_ret.ok /\ bk_ret.asked \in OwnNames(bk_ret.site)
    /\ bk_ret.before \notin {Absent, ContentOf(backup_dir, bk_ret.asked)}
    /\ live[bk_ret.site] = ContentOf(backup_dir, bk_ret.asked)
    /\ \E e \in BackupsOf(bk_ret.site) : e.name = bk_ret.asked /\ e.content = "v1"

\* C13: a successful rollback without a backup name restores the most
\* recently created backup of the site; a rollback with a name that is not
\* the name of a backup of the site fails with a not-found outcome and
\* leaves the site path as it was.
C13_DefaultMostRecentElseNotFound ==
    RolledBack =>
      /\ (bk_ret.asked = NoName /\ bk_ret.ok /\ BackupsOf(bk_ret.site) # {})
           => /\ bk_ret.name = MostRecent(bk_ret.site).name
              /\ live[bk_ret.site] = MostRecent(bk_ret.site).content
      /\ (bk_ret.asked # NoName /\ bk_ret.asked \notin OwnNames(bk_ret.site))
           => /\ NotFound(bk_ret)
              /\ live[bk_ret.site] = bk_ret.before

\* The directory entry of a name.
EntryOf(name) == CHOOSE e \in backup_dir : e.name = name

\* C18: list_backups(site_name) returns the backups of that site, all of
\* them and no others, the more recently created ones first.
C18_ListOwnNewestFirst ==
    bk_ret.op = "list" =>
      LET l == bk_ret.listed
      IN  /\ { l[k].name : k \in 1..Len(l) } = OwnNames(bk_ret.site)
          /\ \A j, k \in 1..Len(l) :
               j < k => EntryOf(l[j].name).nth > EntryOf(l[k].name).nth

\* C20: an operation for one site leaves the backups of the other sites
\* alone: a create_backup (with its cleanup) deletes only backups made for
\* its own site, and a rollback takes only a backup made for its own site
\* as the source of the restore.
C20_NoCrossSiteEffects ==
    [][ /\ bk_ret'.op = "create"
             => \A e \in backup_dir \ backup_dir' : e.owner = bk_ret'.site
        /\ (bk_ret'.op = "rollback" /\ bk_ret'.name # NoName)
             => bk_ret'.name \in OwnNames(bk_ret'.site) ]_vars

\* The steps of the last operation follow the order of rollback: the site
\* path is removed only once a backup is resolved, and the copy starts only
\* after the removal of a site path that existed.
RestoreInOrder ==
    LET steps == bk_ret.steps
    IN  /\ \A j \in 1..Len(steps) :
             steps[j] = "rmtree"
               => /\ bk_ret.name # NoName
                  /\ \E i \in 1..(j - 1) : steps[i] = "select"
                  /\ \E i \in 1..(j - 1) : steps[i] = "list"
        /\ \A k \in 1..Len(steps) :
             steps[k] = "copytree"
               => /\ bk_ret.name # NoName
                  /\ bk_ret.before # Absent
                       => \E j \in 1..(k - 1) : steps[j] = "rmtree"

\* The restore of the last rollback failed after the site path was removed.
RestoreFailedAfterRemoval ==
    /\ RolledBack
    /\ bk_ret.error = "copytree raised"
    /\ \E j \in 1..Len(bk_ret.steps) : bk_ret.steps[j] = "rmtree"

\* C19 as stated: rollback removes the site path only after a backup is
\* resolved and copies only after the removal; when the restore fails
\* after the removal the site path is left absent and the rollback does not
\* report success.
C19_FailedRestoreLeavesAbsent ==
    RolledBack =>
      /\ RestoreInOrder
      /\ RestoreFailedAfterRemoval
           => /\ live[bk_ret.site] = Absent
              /\ ~bk_ret.ok

\* C19, amended: rollback removes the site path only after a backup is
\* resolved and copies only after the removal; when the restore fails
\* after the removal the site path is left absent or with a partly copied
\* tree, and the rollback does not report success.
C19_FailedRestoreLeavesAbsentOrPartial ==
    RolledBack =>
      /\ RestoreInOrder
      /\ RestoreFailedAfterRemoval
           => /\ live[bk_ret.site] \in {Absent, Partial}
              /\ ~bk_ret.ok

\* A rollback removed a site path that held a deployment, and its copy then
\* failed midway: the site path holds a partly copied tree and the rollback
\* did not report success.
C19_Witness ==
    /\ RestoreFailedAfterRemoval
    /\ bk_ret.before \in Contents
    /\ bk_ret.steps = <<"list", "select", "rmtree", "copytree">>
    /\ live[bk_ret.site] = Partial
    /\ ~bk_ret.ok

\* C21: a create_backup of a site path that exists succeeds and adds a
\* backup whose name no other backup in the directory bears and that was
\* made for the site, also when it is the second create_backup for the site
\* within one second of the clock.
C21_CreateAlwaysAddsDistinct ==
    (bk_ret.op = "create" /\ bk_ret.before # Absent)
      => /\ bk_ret.ok
         /\ bk_ret.name \in OwnNames(bk_ret.site)
         /\ Cardinality({ e \in backup_dir : e.name = bk_ret.name }) = 1

====
